---- MODULE Spec2Model ----
(***************************************************************************)
(* A model of submissions/python_task_1.py: six table routines, each       *)
(* called on a table the caller owns.  A table (pandas DataFrame) is a     *)
(* function from column names to equally long sequences of cells.  A call  *)
(* is a run of one routine, one action per statement of its body.          *)
(***************************************************************************)
EXTENDS Integers, Sequences, FiniteSets, TLC

VARIABLES
    fn,      \* the routine that was called
    pc,      \* the statement the call is at; "done" (returned) or "raised"
    df,      \* the caller's table (the argument object, mutable)
    df0,     \* the caller's table as it was when the call was made
    local,   \* the call's local variables
    ret,     \* the returned value once pc = "done"
    clock    \* the system clock, in quarter seconds since a Monday 00:00:00

vars == <<fn, pc, df, df0, local, ret, clock>>

----------------------------------------------------------------------------
(* Bounds of the model *)

MaxRows == 3        \* rows of an input table (car, bus, truck tables)
MaxId == 2          \* id_1, id_2 range over 1..MaxId
MaxDim == 2         \* side of a matrix handed to multiply_matrix
MaxBus == 2         \* bus values range over -MaxBus..MaxBus
MaxRoute == 2       \* route identifiers range over 1..MaxRoute
Margin == 1         \* car and truck values range this far around the thresholds
MaxTimeRows == 2    \* rows of a table handed to time_check
ClockSpan == 3      \* quarter seconds the clock may advance during a call

----------------------------------------------------------------------------
(* Generic helpers *)

SeqsUpTo(S, n) == UNION {[1..k -> S] : k \in 0..n}

Range(s) == {s[i] : i \in DOMAIN s}

Frame(rows, cols) == [c \in cols |-> [i \in 1..Len(rows) |-> rows[i][c]]]

Height(d) == IF DOMAIN d = {} THEN 0 ELSE Len(d[CHOOSE c \in DOMAIN d : TRUE])

WithColumn(d, name, col) ==
    [c \in DOMAIN d \cup {name} |-> IF c = name THEN col ELSE d[c]]

RECURSIVE SumSeq(_)
SumSeq(s) == IF s = <<>> THEN 0 ELSE Head(s) + SumSeq(Tail(s))

RECURSIVE InsertInt(_, _)
InsertInt(x, s) ==
    IF s = <<>> THEN <<x>>
    ELSE IF x < Head(s) THEN <<x>> \o s
    ELSE <<Head(s)>> \o InsertInt(x, Tail(s))

RECURSIVE sorted(_)
sorted(s) == IF s = <<>> THEN <<>> ELSE InsertInt(Head(s), sorted(Tail(s)))

SortedLabels(S) == sorted(CHOOSE s \in [1..Cardinality(S) -> S] : Range(s) = S)

IsAscending(s) == \A i, j \in DOMAIN s : i < j => s[i] <= s[j]

IsStrictlyAscending(s) == \A i, j \in DOMAIN s : i < j => s[i] < s[j]

Idle == [none |-> TRUE]

----------------------------------------------------------------------------
(* The clock *)

TicksPerSecond == 2 * 2

SecondsPerDay == 24 * 60 * 60

TicksPerDay == SecondsPerDay * TicksPerSecond

\* the Monday 00:00:00 that ends the second week of the clock
Midnight == 2 * 7 * TicksPerDay

\* the readings of the clock a call may start at: around that midnight
ClockInstants == (Midnight - ClockSpan)..(Midnight + ClockSpan)

\* the clock's reading in a call of a routine that never reads it
NoClock == Midnight

----------------------------------------------------------------------------
(* generate_car_matrix *)

CarCells == 1..2

CarRows == [id_1 : 1..MaxId, id_2 : 1..MaxId, car : CarCells]

CarFrames == {Frame(r, {"id_1", "id_2", "car"}) : r \in SeqsUpTo(CarRows, MaxRows)}

HasDuplicatePair(d) ==
    \E i, j \in 1..Height(d) :
        i # j /\ d["id_1"][i] = d["id_1"][j] /\ d["id_2"][i] = d["id_2"][j]

\* A cell of a pivoted table: <<v>> holds v, NaN is the missing cell
NaN == <<>>

pivot(d) ==
    LET index == SortedLabels(Range(d["id_1"]))
        columns == SortedLabels(Range(d["id_2"]))
        rowsAt(i, j) == {k \in 1..Height(d) :
                            d["id_1"][k] = index[i] /\ d["id_2"][k] = columns[j]}
    IN [index |-> index,
        columns |-> columns,
        values |-> [p \in (1..Len(index)) \X (1..Len(columns)) |->
                      IF rowsAt(p[1], p[2]) = {} THEN NaN
                      ELSE <<d["car"][CHOOSE k \in rowsAt(p[1], p[2]) : TRUE]>>]]

fillna(m, v) ==
    [m EXCEPT !.values = [p \in DOMAIN m.values |->
                            IF m.values[p] = NaN THEN v ELSE m.values[p][1]]]

ZeroDiagonal(m) ==
    [m EXCEPT !.values = [p \in DOMAIN m.values |->
                            IF p[1] = p[2] THEN 0 ELSE m.values[p]]]

InitCarMatrix ==
    /\ fn = "generate_car_matrix"
    /\ pc = "pivot"
    /\ df \in CarFrames
    /\ df0 = df
    /\ local = Idle
    /\ ret = Idle
    /\ clock = NoClock

\* line 16: pivot raises on a repeated (id_1, id_2) pair
CarMatrixPivot ==
    /\ fn = "generate_car_matrix" /\ pc = "pivot"
    /\ IF HasDuplicatePair(df)
       THEN /\ pc' = "raised"
            /\ local' = local
       ELSE /\ pc' = "diagonal"
            /\ local' = [matrix |-> fillna(pivot(df), 0)]
    /\ UNCHANGED <<fn, df, df0, ret, clock>>

\* lines 17-18: positions (i, i) for i below the number of rows are zeroed;
\* a position outside the columns raises
CarMatrixDiagonal ==
    /\ fn = "generate_car_matrix" /\ pc = "diagonal"
    /\ IF Len(local.matrix.index) > Len(local.matrix.columns)
       THEN /\ pc' = "raised"
            /\ ret' = ret
       ELSE /\ pc' = "done"
            /\ ret' = ZeroDiagonal(local.matrix)
    /\ UNCHANGED <<fn, df, df0, local, clock>>

NextCarMatrix == CarMatrixPivot \/ CarMatrixDiagonal

SpecCarMatrix == InitCarMatrix /\ [][NextCarMatrix]_vars

CarOf(d, a, b) ==
    LET at == {k \in 1..Height(d) : d["id_1"][k] = a /\ d["id_2"][k] = b}
    IN IF at = {} THEN 0 ELSE d["car"][CHOOSE k \in at : TRUE]

\* C4: whenever generate_car_matrix returns, the matrix is square and its
\* rows and columns carry the same labels, also when the distinct id_1
\* values and the distinct id_2 values of the input differ.
C4_SquareSameLabels ==
    (fn = "generate_car_matrix" /\ pc = "done") => ret.index = ret.columns

\* C5: in the returned matrix a cell whose row label equals its column label
\* is 0, a cell of a pair absent from the input is 0, and every other cell
\* holds the input's car value of its pair.
C5_CellsByLabel ==
    (fn = "generate_car_matrix" /\ pc = "done") =>
        \A p \in DOMAIN ret.values :
            ret.values[p] =
                IF ret.index[p[1]] = ret.columns[p[2]] THEN 0
                ELSE CarOf(df0, ret.index[p[1]], ret.columns[p[2]])

----------------------------------------------------------------------------
(* multiply_matrix.  The argument holds whole numbers; the local copy is  *)
(* kept in sixteenths, which the two factors 3/4 and 5/4 applied one      *)
(* after the other stay inside; the result is in tenths.                  *)

RescaleAt == 20

Sixteenths == 4 * 4

Tenths == 2 * 5

MultiplyCells == {RescaleAt, RescaleAt + 1, RescaleAt + 4, RescaleAt + 8}

Matrices ==
    UNION {[index : {[i \in 1..n |-> i]},
            columns : {[i \in 1..n |-> i]},
            values : [(1..n) \X (1..n) -> MultiplyCells]] : n \in 1..MaxDim}

\* numpy's rint: the nearest integer to num/den, a tie going to the even one
RoundHalfEven(num, den) ==
    LET q == num \div den
        r == num % den
    IN IF 2 * r < den THEN q
       ELSE IF 2 * r > den THEN q + 1
       ELSE IF q % 2 = 0 THEN q ELSE q + 1

\* line 76: the cells above 20 (of the matrix as it is now) times 0.75
ScaleDown(x) == IF x > RescaleAt * Sixteenths THEN (x * 3) \div 4 ELSE x

\* line 77: the cells at most 20 (of the matrix as it is now) times 1.25
ScaleUp(x) == IF x <= RescaleAt * Sixteenths THEN (x * 5) \div 4 ELSE x

\* line 78: round(1)
RoundOne(x) == RoundHalfEven(x * Tenths, Sixteenths)

InitMultiply ==
    /\ fn = "multiply_matrix"
    /\ pc = "copy"
    /\ df \in Matrices
    /\ df0 = df
    /\ local = Idle
    /\ ret = Idle
    /\ clock = NoClock

MultiplyCopy ==
    /\ fn = "multiply_matrix" /\ pc = "copy"
    /\ local' = [modified_matrix |->
                    [df EXCEPT !.values = [p \in DOMAIN @ |-> @[p] * Sixteenths]]]
    /\ pc' = "above"
    /\ UNCHANGED <<fn, df, df0, ret, clock>>

MultiplyAbove ==
    /\ fn = "multiply_matrix" /\ pc = "above"
    /\ local' = [modified_matrix |->
                    [local.modified_matrix EXCEPT
                        !.values = [p \in DOMAIN @ |-> ScaleDown(@[p])]]]
    /\ pc' = "below"
    /\ UNCHANGED <<fn, df, df0, ret, clock>>

MultiplyBelow ==
    /\ fn = "multiply_matrix" /\ pc = "below"
    /\ local' = [modified_matrix |->
                    [local.modified_matrix EXCEPT
                        !.values = [p \in DOMAIN @ |-> ScaleUp(@[p])]]]
    /\ pc' = "round"
    /\ UNCHANGED <<fn, df, df0, ret, clock>>

MultiplyRound ==
    /\ fn = "multiply_matrix" /\ pc = "round"
    /\ ret' = [local.modified_matrix EXCEPT
                   !.values = [p \in DOMAIN @ |-> RoundOne(@[p])]]
    /\ pc' = "done"
    /\ UNCHANGED <<fn, df, df0, local, clock>>

NextMultiply == MultiplyCopy \/ MultiplyAbove \/ MultiplyBelow \/ MultiplyRound

SpecMultiply == InitMultiply /\ [][NextMultiply]_vars

\* C1: every cell of the result is the input cell v times 0.75 rounded to
\* one decimal when v > 20, and v times 1.25 rounded to one decimal when
\* v <= 20: one factor per cell, chosen from the original value.
C1_OneFactorPerCell ==
    (fn = "multiply_matrix" /\ pc = "done") =>
        \A p \in DOMAIN df0.values :
            LET v == df0.values[p]
            IN ret.values[p] =
                   IF v > RescaleAt THEN RoundHalfEven(v * 3 * Tenths, 4)
                   ELSE RoundHalfEven(v * 5 * Tenths, 4)

----------------------------------------------------------------------------
(* get_type_count *)

BinMedium == 15

BinHigh == 25

CarValues == ((BinMedium - Margin)..(BinMedium + Margin))
                \cup ((BinHigh - Margin)..(BinHigh + Margin))

TypeFrames == {Frame(r, {"car"}) : r \in SeqsUpTo([car : CarValues], MaxRows)}

\* the labels of pd.cut, in the order of their bins
Categories == <<"low", "medium", "high">>

\* pd.cut with its default right=True: (-inf, 15], (15, 25], (25, inf]
cut_right_closed(x) ==
    IF x <= BinMedium THEN Categories[1]
    ELSE IF x <= BinHigh THEN Categories[2]
    ELSE Categories[3]

\* pd.cut with bins [-inf, 15, 25, inf] and right=False: [-inf, 15), [15, 25),
\* [25, inf)
cut(x) ==
    IF x < BinMedium THEN Categories[1]
    ELSE IF x < BinHigh THEN Categories[2]
    ELSE Categories[3]

\* the code points of a label: Python orders strings by them
CodePoints(str) ==
    CASE str = "low" -> <<108, 111, 119>>
      [] str = "medium" -> <<109, 101, 100, 105, 117, 109>>
      [] str = "high" -> <<104, 105, 103, 104>>

RECURSIVE SeqLess(_, _)
SeqLess(s, t) ==
    IF t = <<>> THEN FALSE
    ELSE IF s = <<>> THEN TRUE
    ELSE IF Head(s) < Head(t) THEN TRUE
    ELSE IF Head(s) > Head(t) THEN FALSE
    ELSE SeqLess(Tail(s), Tail(t))

StrLess(a, b) == SeqLess(CodePoints(a), CodePoints(b))

\* Python's order of (key, count) tuples
ItemLess(x, y) == StrLess(x[1], y[1]) \/ (x[1] = y[1] /\ x[2] < y[2])

RECURSIVE InsertItem(_, _)
InsertItem(x, s) ==
    IF s = <<>> THEN <<x>>
    ELSE IF ItemLess(x, Head(s)) THEN <<x>> \o s
    ELSE <<Head(s)>> \o InsertItem(x, Tail(s))

RECURSIVE sorted_items(_)
sorted_items(s) ==
    IF s = <<>> THEN <<>> ELSE InsertItem(Head(s), sorted_items(Tail(s)))

CountOf(col, label) == Cardinality({i \in DOMAIN col : col[i] = label})

\* value_counts of a categorical column: one entry per category, the larger
\* count first, categories of equal count in any order
ValueCounts(col) ==
    {order \in [1..Len(Categories) -> {<<Categories[k], CountOf(col, Categories[k])>> :
                                           k \in DOMAIN Categories}] :
        /\ \A i, j \in DOMAIN order : i < j =>
               order[i][1] # order[j][1] /\ order[i][2] >= order[j][2]}

InitTypeCount ==
    /\ fn = "get_type_count"
    /\ pc = "cut"
    /\ df \in TypeFrames
    /\ df0 = df
    /\ local = Idle
    /\ ret = Idle
    /\ clock = NoClock

\* line 30: the column is stored in the caller's table
TypeCountCut ==
    /\ fn = "get_type_count" /\ pc = "cut"
    /\ df' = WithColumn(df, "car_type", [i \in DOMAIN df["car"] |-> cut(df["car"][i])])
    /\ pc' = "count"
    /\ UNCHANGED <<fn, df0, local, ret, clock>>

\* line 31
TypeCountCount ==
    /\ fn = "get_type_count" /\ pc = "count"
    /\ \E counts \in ValueCounts(df["car_type"]) :
           local' = [car_type_counts |-> counts]
    /\ pc' = "sort"
    /\ UNCHANGED <<fn, df, df0, ret, clock>>

\* lines 32-33
TypeCountSort ==
    /\ fn = "get_type_count" /\ pc = "sort"
    /\ ret' = sorted_items(local.car_type_counts)
    /\ pc' = "done"
    /\ UNCHANGED <<fn, df, df0, local, clock>>

NextTypeCount == TypeCountCut \/ TypeCountCount \/ TypeCountSort

SpecTypeCount == InitTypeCount /\ [][NextTypeCount]_vars

----------------------------------------------------------------------------
(* get_bus_indexes.  The table's row labels are kept under "index".       *)

BusValues == (0 - MaxBus)..MaxBus

RowLabels(n) == {s \in [1..n -> 0..(n - 1)] : \A i, j \in 1..n : i # j => s[i] # s[j]}

BusFrames ==
    UNION {[index : RowLabels(n), bus : [1..n -> BusValues]] : n \in 0..MaxRows}

\* the mean of a column as the fraction sum/count; of no rows it is NaN
mean(col) == IF col = <<>> THEN NaN ELSE <<SumSeq(col), Len(col)>>

\* x >= 2 * m
AtLeastTwice(x, m) == m # NaN /\ x * m[2] >= 2 * m[1]

\* x > 2 * m, false against NaN
ExceedsTwice(x, m) == m # NaN /\ x * m[2] > 2 * m[1]

\* labels[mask]: the labels of the rows a boolean mask holds for, in the
\* order of the rows
Masked(labels, mask) ==
    LET F[i \in 0..Len(mask)] ==
            IF i = 0 THEN <<>>
            ELSE IF mask[i] THEN Append(F[i - 1], labels[i]) ELSE F[i - 1]
    IN F[Len(mask)]

InitBus ==
    /\ fn = "get_bus_indexes"
    /\ pc = "mean"
    /\ df \in BusFrames
    /\ df0 = df
    /\ local = Idle
    /\ ret = Idle
    /\ clock = NoClock

\* line 45
BusMean ==
    /\ fn = "get_bus_indexes" /\ pc = "mean"
    /\ local' = [mean_bus |-> mean(df["bus"])]
    /\ pc' = "filter"
    /\ UNCHANGED <<fn, df, df0, ret, clock>>

\* line 46
BusFilter ==
    /\ fn = "get_bus_indexes" /\ pc = "filter"
    /\ local' = [mean_bus |-> local.mean_bus,
                 bus_indexes |-> Masked(df["index"],
                                     [i \in DOMAIN df["bus"] |->
                                         ExceedsTwice(df["bus"][i], local.mean_bus)])]
    /\ pc' = "sort"
    /\ UNCHANGED <<fn, df, df0, ret, clock>>

\* lines 47-48
BusSort ==
    /\ fn = "get_bus_indexes" /\ pc = "sort"
    /\ ret' = sorted(local.bus_indexes)
    /\ pc' = "done"
    /\ UNCHANGED <<fn, df, df0, local, clock>>

NextBus == BusMean \/ BusFilter \/ BusSort

SpecBus == InitBus /\ [][NextBus]_vars

\* C7: the list holds exactly the row labels whose bus value is strictly
\* greater than twice the mean of the bus column, each once, in ascending
\* order, also when the mean is zero or negative.
C7_ExactlyAboveTwiceMean ==
    (fn = "get_bus_indexes" /\ pc = "done") =>
        LET bus == df0["bus"]
            n == Len(bus)
            qualifying == {df0["index"][i] : i \in {k \in 1..n : n * bus[k] > 2 * SumSeq(bus)}}
        IN /\ Range(ret) = qualifying
           /\ Len(ret) = Cardinality(qualifying)
           /\ IsAscending(ret)

\* a negative mean, a row equal to twice the mean left out, and two rows
\* returned in another order than the table holds them
C7_Witness ==
    /\ fn = "get_bus_indexes" /\ pc = "done"
    /\ SumSeq(df0["bus"]) < 0
    /\ \E i \in DOMAIN df0["bus"] :
           /\ Len(df0["bus"]) * df0["bus"][i] = 2 * SumSeq(df0["bus"])
           /\ df0["index"][i] \notin Range(ret)
    /\ Len(ret) = 2
    /\ ret # local.bus_indexes

----------------------------------------------------------------------------
(* filter_routes *)

TruckAbove == 7

TruckValues == (TruckAbove - Margin)..(TruckAbove + Margin)

RouteFrames ==
    {Frame(r, {"route", "truck"}) :
        r \in SeqsUpTo([route : 1..MaxRoute, truck : TruckValues], MaxRows)}

\* groupby('route')['truck'].mean(): one entry per route, in the order of
\* the routes, the mean as the fraction sum/count
GroupMean(d) ==
    LET keys == SortedLabels(Range(d["route"]))
        rowsOf(r) == {i \in 1..Height(d) : d["route"][i] = r}
        total[S \in SUBSET (1..Height(d))] ==
            IF S = {} THEN 0
            ELSE LET i == CHOOSE i \in S : TRUE IN d["truck"][i] + total[S \ {i}]
    IN [index |-> keys,
        values |-> [k \in DOMAIN keys |->
                       <<total[rowsOf(keys[k])], Cardinality(rowsOf(keys[k]))>>]]

\* m >= 7
AtLeast7(m) == m[1] >= TruckAbove * m[2]

\* m > 7
Above7(m) == m[1] > TruckAbove * m[2]

InitRoutes ==
    /\ fn = "filter_routes"
    /\ pc = "groupby"
    /\ df \in RouteFrames
    /\ df0 = df
    /\ local = Idle
    /\ ret = Idle
    /\ clock = NoClock

\* line 60
RoutesGroup ==
    /\ fn = "filter_routes" /\ pc = "groupby"
    /\ local' = [avg_truck_by_route |-> GroupMean(df)]
    /\ pc' = "filter"
    /\ UNCHANGED <<fn, df, df0, ret, clock>>

\* line 61
RoutesFilter ==
    /\ fn = "filter_routes" /\ pc = "filter"
    /\ local' = [avg_truck_by_route |-> local.avg_truck_by_route,
                 routes_above_7 |-> Masked(local.avg_truck_by_route.index,
                                     [k \in DOMAIN local.avg_truck_by_route.values |->
                                         Above7(local.avg_truck_by_route.values[k])])]
    /\ pc' = "sort"
    /\ UNCHANGED <<fn, df, df0, ret, clock>>

\* lines 62-63
RoutesSort ==
    /\ fn = "filter_routes" /\ pc = "sort"
    /\ ret' = sorted(local.routes_above_7)
    /\ pc' = "done"
    /\ UNCHANGED <<fn, df, df0, local, clock>>

NextRoutes == RoutesGroup \/ RoutesFilter \/ RoutesSort

SpecRoutes == InitRoutes /\ [][NextRoutes]_vars

\* C8: the list holds a route, exactly once, if and only if the mean of truck
\* over the rows of that route is strictly greater than 7, in ascending order.
C8_ExactlyMeanAbove7 ==
    (fn = "filter_routes" /\ pc = "done") =>
        LET rowsOf(r) == {i \in 1..Height(df0) : df0["route"][i] = r}
            trucks(r) == SumSeq(Masked(df0["truck"],
                                [i \in DOMAIN df0["route"] |-> df0["route"][i] = r]))
        IN /\ \A r \in 1..MaxRoute :
                  r \in Range(ret) <=>
                      (rowsOf(r) # {} /\ trucks(r) > 7 * Cardinality(rowsOf(r)))
           /\ IsStrictlyAscending(ret)

\* a route whose mean is exactly 7 left out beside a route returned
C8_Witness ==
    /\ fn = "filter_routes" /\ pc = "done"
    /\ \E k \in DOMAIN local.avg_truck_by_route.index :
           /\ local.avg_truck_by_route.values[k][1] = 7 * local.avg_truck_by_route.values[k][2]
           /\ local.avg_truck_by_route.values[k][2] > 1
           /\ local.avg_truck_by_route.index[k] \notin Range(ret)
    /\ ret # <<>>

----------------------------------------------------------------------------
(* time_check.  A datetime.today() value is the clock's reading, in        *)
(* quarter seconds since a Monday 00:00:00; a pandas Timestamp rounded to  *)
(* the second is in seconds since that Monday.  A time of day is read      *)
(* from its text "HH:MM:SS", held as <<HH, MM, SS>>.                       *)

\* lines 91-99
days == [Monday |-> 0, Tuesday |-> 1, Wednesday |-> 2, Thursday |-> 3,
         Friday |-> 4, Saturday |-> 5, Sunday |-> 6]

TimeRows ==
    [id : {1}, id_2 : 1..MaxId,
     startDay : {"Monday", "Sunday"}, startTime : {<<0, 0, 0>>},
     endDay : {"Monday", "Sunday"}, endTime : {<<23, 59, 58>>, <<23, 59, 59>>}]

TimeColumns == {"id", "id_2", "startDay", "startTime", "endDay", "endTime"}

TimeFrames ==
    {Frame(r, TimeColumns) : r \in SeqsUpTo(TimeRows, MaxTimeRows) \ {<<>>}}

\* datetime.weekday()
weekday(now) == (now \div TicksPerDay) % 7

\* lines 103-105, with the two readings of the clock it rests on: today at
\* line 101, now at the call
weekday_to_date(day, today, now) == now + (days[day] - today) * TicksPerDay

\* dt.round('1s')
round_1s(t) == RoundHalfEven(t, TicksPerSecond)

\* pd.to_datetime of a time of day; only these fields are read afterwards
to_datetime(text) == [hour |-> text[1], minute |-> text[2], second |-> text[3]]

\* Timestamp.replace(hour=, minute=, second=)
replace(date, time) ==
    (date \div SecondsPerDay) * SecondsPerDay
        + time.hour * 60 * 60 + time.minute * 60 + time.second

\* lines 107-110 (Which = "start") and 111-114 (Which = "end"), given the
\* dates weekday_to_date returned for the rows
Combine(d, which, dates) ==
    LET rounded == [i \in DOMAIN dates |-> round_1s(dates[i])]
        times == [i \in DOMAIN dates |-> to_datetime(d[which \o "Time"][i])]
        d1 == WithColumn(d, which \o "Date", rounded)
        d2 == WithColumn(d1, which \o "Time", times)
    IN WithColumn(d2, which \o "DayTime",
                  [i \in DOMAIN rounded |-> replace(rounded[i], times[i])])

PairLess(a, b) == a[1] < b[1] \/ (a[1] = b[1] /\ a[2] < b[2])

SortedPairs(S) ==
    CHOOSE s \in [1..Cardinality(S) -> S] :
        \A i, j \in DOMAIN s : i < j => PairLess(s[i], s[j])

MinOf(S) == CHOOSE x \in S : \A y \in S : x <= y

MaxOf(S) == CHOOSE x \in S : \A y \in S : x >= y

\* line 119
time_delta == 6 * SecondsPerDay + 23 * 60 * 60 + 59 * 60 + 59

\* lines 115-124: one row per (id, id_2), in the order of the pairs
Aggregate(d) ==
    LET n == Height(d)
        keys == SortedPairs({<<d["id"][i], d["id_2"][i]>> : i \in 1..n})
        rowsOf(k) == {i \in 1..n : <<d["id"][i], d["id_2"][i]>> = k}
        first == [k \in DOMAIN keys |-> MinOf({d["startDayTime"][i] : i \in rowsOf(keys[k])})]
        last == [k \in DOMAIN keys |-> MaxOf({d["endDayTime"][i] : i \in rowsOf(keys[k])})]
    IN [index |-> keys,
        startDayTime |-> first,
        endDayTime |-> last,
        TimeDifference |-> [k \in DOMAIN keys |-> last[k] - first[k]],
        time_completeness |-> [k \in DOMAIN keys |-> last[k] - first[k] = time_delta]]

InitTimeCheck ==
    /\ fn = "time_check"
    /\ pc = "today"
    /\ df \in TimeFrames
    /\ df0 = df
    /\ local = Idle
    /\ ret = Idle
    /\ clock \in ClockInstants

\* the clock runs on while the call does
Tick ==
    /\ fn = "time_check" /\ pc \notin {"done", "raised"}
    /\ clock < Midnight + ClockSpan
    /\ clock' = clock + 1
    /\ UNCHANGED <<fn, pc, df, df0, local, ret>>

\* line 101
TimeToday ==
    /\ fn = "time_check" /\ pc = "today"
    /\ local' = [today |-> weekday(clock), dates |-> <<>>]
    /\ pc' = "startDate"
    /\ UNCHANGED <<fn, df, df0, ret, clock>>

\* line 107, one row of the apply: weekday_to_date reads the clock again
TimeStartDateRow ==
    /\ fn = "time_check" /\ pc = "startDate"
    /\ Len(local.dates) < Height(df)
    /\ local' = [local EXCEPT !.dates =
                    Append(@, weekday_to_date(df["startDay"][Len(@) + 1], local.today, clock))]
    /\ UNCHANGED <<fn, pc, df, df0, ret, clock>>

\* lines 107-110, once every row has its date
TimeStartCombine ==
    /\ fn = "time_check" /\ pc = "startDate"
    /\ Len(local.dates) = Height(df)
    /\ df' = Combine(df, "start", local.dates)
    /\ local' = [local EXCEPT !.dates = <<>>]
    /\ pc' = "endDate"
    /\ UNCHANGED <<fn, df0, ret, clock>>

\* line 111, one row of the apply
TimeEndDateRow ==
    /\ fn = "time_check" /\ pc = "endDate"
    /\ Len(local.dates) < Height(df)
    /\ local' = [local EXCEPT !.dates =
                    Append(@, weekday_to_date(df["endDay"][Len(@) + 1], local.today, clock))]
    /\ UNCHANGED <<fn, pc, df, df0, ret, clock>>

\* lines 111-114, once every row has its date
TimeEndCombine ==
    /\ fn = "time_check" /\ pc = "endDate"
    /\ Len(local.dates) = Height(df)
    /\ df' = Combine(df, "end", local.dates)
    /\ local' = [local EXCEPT !.dates = <<>>]
    /\ pc' = "aggregate"
    /\ UNCHANGED <<fn, df0, ret, clock>>

\* lines 115-124: df is rebound to new tables, the caller's is left as it is
TimeAggregate ==
    /\ fn = "time_check" /\ pc = "aggregate"
    /\ ret' = Aggregate(df)
    /\ pc' = "done"
    /\ UNCHANGED <<fn, df, df0, local, clock>>

NextTimeCheck ==
    \/ Tick
    \/ TimeToday
    \/ TimeStartDateRow
    \/ TimeStartCombine
    \/ TimeEndDateRow
    \/ TimeEndCombine
    \/ TimeAggregate

SpecTimeCheck == InitTimeCheck /\ [][NextTimeCheck]_vars

\* the instant of a weekday and a time of day in one common week, in seconds
\* since that week's Monday 00:00:00
WeekInstant(day, text) == days[day] * 86400 + text[1] * 3600 + text[2] * 60 + text[3]

GroupRows(d, k) == {i \in 1..Height(d) : <<d["id"][i], d["id_2"][i]>> = k}

GroupStart(d, k) ==
    MinOf({WeekInstant(d["startDay"][i], d["startTime"][i]) : i \in GroupRows(d, k)})

GroupEnd(d, k) ==
    MaxOf({WeekInstant(d["endDay"][i], d["endTime"][i]) : i \in GroupRows(d, k)})

Pairs(d) == {<<d["id"][i], d["id_2"][i]>> : i \in 1..Height(d)}

\* C2: the result holds exactly one entry for each distinct (id, id_2) pair
\* of the input, keyed by the pair, and the entry's flag is true if and only
\* if the group's latest end minus its earliest start, both placed in one
\* common week, is exactly 6 days 23:59:59.
C2_FlagIffFullSpan ==
    (fn = "time_check" /\ pc = "done") =>
        /\ Range(ret.index) = Pairs(df0)
        /\ Len(ret.index) = Cardinality(Pairs(df0))
        /\ \A k \in DOMAIN ret.index :
               ret.time_completeness[k] <=>
                   (GroupEnd(df0, ret.index[k]) - GroupStart(df0, ret.index[k]) = 604799)

\* A second of the week is covered by a group when it lies inside the
\* [start, end] interval of one of the group's rows.
Covered(d, k, t) ==
    \E i \in GroupRows(d, k) :
        /\ WeekInstant(d["startDay"][i], d["startTime"][i]) <= t
        /\ t <= WeekInstant(d["endDay"][i], d["endTime"][i])

\* The first second a group leaves uncovered, if any, is second 0 or the
\* second after the end of one of its rows: the group covers the week when
\* each of these is covered.
CoversWeek(d, k) ==
    \A t \in {0} \cup {WeekInstant(d["endDay"][i], d["endTime"][i]) + 1 : i \in GroupRows(d, k)} :
        t <= 604799 => Covered(d, k, t)

\* C3: a group is flagged true only if every second from Monday 00:00:00
\* through Sunday 23:59:59 lies inside the interval of one of its rows.
C3_FlagOnlyIfNoGap ==
    (fn = "time_check" /\ pc = "done") =>
        \A k \in DOMAIN ret.index :
            ret.time_completeness[k] => CoversWeek(df0, ret.index[k])

\* time_check's result on table d when every reading of the clock is c
time_check_at(d, c) ==
    LET startDates == [i \in 1..Height(d) |-> weekday_to_date(d["startDay"][i], weekday(c), c)]
        d1 == Combine(d, "start", startDates)
        endDates == [i \in 1..Height(d) |-> weekday_to_date(d["endDay"][i], weekday(c), c)]
    IN Aggregate(Combine(d1, "end", endDates))

\* C10: the flags a run returns are those of any other run on the same
\* table, whatever the clock read during either: in particular those of a
\* run during which the clock stood at any one instant.
C10_FlagsIndependentOfClock ==
    (fn = "time_check" /\ pc = "done") =>
        \A c \in ClockInstants :
            ret.time_completeness = time_check_at(df0, c).time_completeness

----------------------------------------------------------------------------
(* Any of the six routines, called once *)

Init ==
    \/ InitCarMatrix
    \/ InitTypeCount
    \/ InitBus
    \/ InitRoutes
    \/ InitMultiply
    \/ InitTimeCheck

Next ==
    \/ NextCarMatrix
    \/ NextTypeCount
    \/ NextBus
    \/ NextRoutes
    \/ NextMultiply
    \/ NextTimeCheck

Spec == Init /\ [][Next]_vars

\* C9: each of the six routines leaves the caller's table with the columns
\* and the cells it had before the call.
C9_ArgumentUnchanged ==
    pc = "done" => df = df0

====
